---- MODULE Spec2Model ----
(***************************************************************************)
(* Model of the llm-response-mcp server: the stdio JSON-RPC dispatch loop  *)
(* (main, handleMessage, handleToolCall) and the wait engine               *)
(* (UserInputServer.waitForUserInput and its fs.watch callback).           *)
(*                                                                         *)
(* The repository holds two builds of the wait engine:                     *)
(*   "txt"  src/index.ts          separator line, marker at the very end   *)
(*   "md"   src/unnamed/part_000  markdown body, fenced editable region    *)
(* The variable  variant  fixes which build a behaviour runs.              *)
(*                                                                         *)
(* Text is a sequence of tokens.  "ws" is a run of whitespace, "bt" is one  *)
(* backtick character, "SEND"/"send" are the marker //SEND in upper and    *)
(* lower case, "a","b","A","B" are words of a message, and the remaining   *)
(* tokens are the fixed pieces of text the server itself writes.           *)
(***************************************************************************)
EXTENDS Integers, Sequences, FiniteSets, Bags, TLC

\* ------------------------------------------------------------------ bounds
MaxWaits == 2
MaxInFlight == 2
MaxBuffer == 4
MaxLen == 5
MaxStream == 4

\* ------------------------------------------------------------ state
VARIABLES
  variant,      \* which build runs: "txt" (index.ts) or "md" (part_000)
  initialized,  \* UserInputServer.initialized
  history,      \* UserInputServer.history
  file,         \* content of INPUT_FILE on disk
  waits,        \* one record per waitForUserInput call: its promise and body
  watchers,     \* the calls whose fs.watch subscription is open
  handlers,     \* runs of the watch callback suspended at await readFile
  unavailable,  \* the editor programs Bun.spawn fails to start on this machine
  spawned,      \* the editors the newest call tried and the one it started
  stream,       \* what stdin still holds, when the whole input is fixed in
                \* advance (SpecFraming); <<>> where chunks arrive from outside
  buffer,       \* main: buffer
  pc,           \* main: "start", "read", "lines", "await", "done"
  pending,      \* the request whose handleMessage main is awaiting
  stdout,       \* the lines the last step wrote with console.log
  readFailed,   \* whether a readFile of a callback run has failed during the
                \* newest call (recorded under SpecReadFail only)
  firstSaved,   \* the message of the first submission the human saved during
                \* the newest call, <<>> while there is none
  last          \* what the last step handled: the line DispatchLine took, the
                \* content a callback run resumed with, a failed read

\* ------------------------------------------------------- text primitives
IsWs(x) == x = "ws"

IsTick(x) == x = "bt"

\* the marker //SEND in any letter case (the i flag of the regexes)
IsSend(x) == x \in {"SEND", "send"}

\* String.prototype.toUpperCase, token by token
ToUpperTok(x) ==
  CASE x = "send" -> "SEND"
    [] x = "a" -> "A"
    [] x = "b" -> "B"
    [] OTHER -> x

toUpperCase(s) == [i \in 1..Len(s) |-> ToUpperTok(s[i])]

\* String.prototype.trim
trim(s) ==
  LET keep == {i \in 1..Len(s) : ~IsWs(s[i])}
  IN IF keep = {} THEN <<>>
     ELSE LET lo == CHOOSE i \in keep : \A j \in keep : i <= j
              hi == CHOOSE i \in keep : \A j \in keep : i >= j
          IN SubSeq(s, lo, hi)

\* Array.prototype.join
RECURSIVE join(_, _)
join(ss, sep) ==
  IF ss = <<>> THEN <<>>
  ELSE IF Len(ss) = 1 THEN ss[1]
  ELSE ss[1] \o sep \o join(Tail(ss), sep)

\* greedy \s* starting at position i: the first position that is not whitespace
SkipWs(s, i) ==
  LET stop == {j \in i..(Len(s) + 1) : j = Len(s) + 1 \/ ~IsWs(s[j])}
  IN CHOOSE j \in stop : \A k \in stop : j <= k

TickAt(s, i) == i >= 1 /\ i <= Len(s) /\ IsTick(s[i])

Fence == <<"bt", "bt", "bt">>

\* three backticks at position i
FenceAt(s, i) == TickAt(s, i) /\ TickAt(s, i + 1) /\ TickAt(s, i + 2)

\* ------------------------------------------- rendering (both builds)
\* the history entry pushed on success: "[" timestamp "] USER: " message
HistoryEntry(userMessage) == <<"ENTRY", "ws">> \o userMessage

\* index.ts: the separator line; the literal is one token
separator == <<"SEP">>

\* index.ts: historyText
RenderTxt(hist) ==
  IF Len(hist) > 0
  THEN join(hist, <<"ws">>) \o <<"ws">> \o separator \o <<"ws">>
  ELSE separator \o <<"ws">>

\* part_000: historySection
historySection(hist) ==
  IF Len(hist) > 0
  THEN <<"HDR_HIST", "ws">> \o join(hist, <<"ws">>) \o <<"ws", "RULE", "ws">>
  ELSE <<>>

\* part_000: the instruction text above the fenced region
InstructionHead ==
  <<"HDR_MSG", "ws", "INSTR1", "ws", "bt", "SEND", "bt", "ws", "INSTR2", "ws">>

\* part_000: instructions = head, opening fence, empty line, //SEND, closing fence
instructions == InstructionHead \o Fence \o <<"ws", "SEND", "ws">> \o Fence

RenderMd(hist) == historySection(hist) \o instructions

\* the body written by writeFile at the start of a wait
RenderBody(v, hist) == IF v = "md" THEN RenderMd(hist) ELSE RenderTxt(hist)

\* the test of the extracted message left out
AcceptsAny(userMessage) == TRUE

\* if (userMessage): the empty string is falsy
Accepts(userMessage) == userMessage # <<>>

\* ------------------------------------ part_000: marker test and extraction
\* the regex  //SEND \s* `` `? \s* $  (flag i) matched with //SEND at position i
MarkerTailAt(s, i) ==
  /\ i >= 1 /\ i <= Len(s) /\ IsSend(s[i])
  /\ LET j == SkipWs(s, i + 1)
     IN /\ TickAt(s, j) /\ TickAt(s, j + 1)
        /\ LET k == IF TickAt(s, j + 2) THEN j + 3 ELSE j + 2
           IN SkipWs(s, k) = Len(s) + 1

\* the marker looked for anywhere in the content instead of at its end
hasSendMarkerAnywhere(trimmed) == \E i \in 1..Len(trimmed) : IsSend(trimmed[i])

hasSendMarker(trimmed) == \E i \in 1..Len(trimmed) : MarkerTailAt(trimmed, i)

\* the regex  //SEND \s* ```  (flag i) matched with //SEND at position j
SendFenceAt(s, j) ==
  j >= 1 /\ j <= Len(s) /\ IsSend(s[j]) /\ FenceAt(s, SkipWs(s, j + 1))

\* positions where the regex  ``` \s* ([\s\S]*?) //SEND \s* ```  can start
BlockStarts(s) ==
  {i \in 1..Len(s) : FenceAt(s, i) /\ \E j \in (i + 3)..Len(s) : SendFenceAt(s, j)}

\* trimmed.match(...): the leftmost start, greedy \s*, lazy group 1
codeBlockMatch(s) ==
  IF BlockStarts(s) = {} THEN [found |-> FALSE, group1 |-> <<>>]
  ELSE LET i == CHOOSE x \in BlockStarts(s) : \A y \in BlockStarts(s) : x <= y
           p == SkipWs(s, i + 3)
           ends == {j \in p..Len(s) : SendFenceAt(s, j)}
           j == CHOOSE x \in ends : \A y \in ends : x <= y
       IN [found |-> TRUE, group1 |-> SubSeq(s, p, j - 1)]

\* trimmed.replace(marker-tail regex, "")
StripMarkerTail(s) ==
  LET at == {i \in 1..Len(s) : MarkerTailAt(s, i)}
  IN IF at = {} THEN s
     ELSE SubSeq(s, 1, (CHOOSE x \in at : \A y \in at : x <= y) - 1)

ExtractMd(content) ==
  LET trimmed == trim(content)
  IN IF trimmed = <<>> THEN [ok |-> FALSE, userMessage |-> <<>>]
     ELSE IF ~hasSendMarker(trimmed) THEN [ok |-> FALSE, userMessage |-> <<>>]
     ELSE LET m == codeBlockMatch(trimmed)
              userMessage == IF m.found THEN trim(m.group1)
                             ELSE trim(StripMarkerTail(trimmed))
          IN [ok |-> Accepts(userMessage), userMessage |-> userMessage]

\* ------------------------------------ index.ts: marker test and extraction
endsWithSendMarker(s) == Len(s) > 0 /\ toUpperCase(s)[Len(s)] = "SEND"

includesSeparator(s) == \E i \in 1..Len(s) : s[i] = "SEP"

\* trimmed.split(separator).pop()
LastSegment(s) ==
  LET at == {i \in 1..Len(s) : s[i] = "SEP"}
      lastAt == CHOOSE x \in at : \A y \in at : x >= y
  IN SubSeq(s, lastAt + 1, Len(s))

\* userMessage.replace(//SEND$ with flag i, "")
StripFinalMarker(s) ==
  IF Len(s) > 0 /\ IsSend(s[Len(s)]) THEN SubSeq(s, 1, Len(s) - 1) ELSE s

ExtractTxt(content) ==
  LET trimmed == trim(content)
  IN IF trimmed = <<>> THEN [ok |-> FALSE, userMessage |-> <<>>]
     ELSE IF ~endsWithSendMarker(trimmed) THEN [ok |-> FALSE, userMessage |-> <<>>]
     ELSE LET seg == IF includesSeparator(trimmed) THEN trim(LastSegment(trimmed))
                     ELSE trimmed
              userMessage == trim(StripFinalMarker(seg))
          IN [ok |-> Accepts(userMessage), userMessage |-> userMessage]

\* what one run of the watch callback decides for the content it has read
Extract(v, content) == IF v = "md" THEN ExtractMd(content) ELSE ExtractTxt(content)

\* ------------------------------------------------ the input stream
\* One stream token is a whole JSON request text, a piece of text that is
\* not JSON, a blank, or a line terminator.
Tok(t, method, id, tool) == [t |-> t, method |-> method, id |-> id, tool |-> tool]

NL == Tok("nl", "-", 0, "-")

SP == Tok("sp", "-", 0, "-")

GARBAGE == Tok("x", "-", 0, "-")

Ids == {1, 2}

\* the id member null of a response
NullId == 0

ToolNames == {"wait_for_user_input", "get_input_file", "bogus"}

\* tool = "absent": the request has no params member
Request(method, id, tool) == Tok("req", method, id, tool)

PlainRequests ==
  {Request(m, i, "absent") :
     m \in {"initialize", "tools/list", "notifications/initialized", "other"}, i \in Ids}

CallRequests == {Request("tools/call", i, n) : i \in Ids, n \in ToolNames \cup {"absent"}}

Requests == PlainRequests \cup CallRequests

HasNewline(buf) == \E i \in 1..Len(buf) : buf[i] = NL

\* buffer.indexOf("\n"), 1-based
newlineIndex(buf) ==
  CHOOSE i \in 1..Len(buf) : buf[i] = NL /\ \A j \in 1..(i - 1) : buf[j] # NL

\* buffer.slice(0, newlineIndex).trim()
LineOf(buf) ==
  LET raw == SubSeq(buf, 1, newlineIndex(buf) - 1)
      keep == {i \in 1..Len(raw) : raw[i] # SP}
  IN IF keep = {} THEN <<>>
     ELSE SubSeq(raw, CHOOSE i \in keep : \A j \in keep : i <= j,
                      CHOOSE i \in keep : \A j \in keep : i >= j)

\* buffer.slice(newlineIndex + 1)
RestOf(buf) == SubSeq(buf, newlineIndex(buf) + 1, Len(buf))

\* JSON.parse succeeds exactly on a line that is one JSON text
ParsesAsJson(line) == Len(line) = 1 /\ line[1].t = "req"

\* ------------------------------------------------------- responses
Resp(id, code, kind, status, text) ==
  [id |-> id, code |-> code, kind |-> kind, status |-> status, text |-> text]

\* the catch block answering with the invalid-request code
ParseErrorAsInvalidRequest == Resp(NullId, -32600, "error", "-", <<>>)

\* catch (err): code -32700, id null
ParseErrorResponse == Resp(NullId, -32700, "error", "-", <<>>)

\* the error answered without the request's id
MethodNotFoundNullId(request) == Resp(NullId, -32601, "error", "-", <<>>)

MethodNotFoundResponse(request) == Resp(request.id, -32601, "error", "-", <<>>)

\* result.capabilities = { tools: {} }
InitializeResponse(request) == Resp(request.id, 0, "initialize", "-", <<"tools">>)

ToolsListResponse(request) ==
  Resp(request.id, 0, "tools", "-", <<"wait_for_user_input", "get_input_file">>)

\* a tool result wrapped as the single text content item of result
ToolResponse(request, status, text) == Resp(request.id, 0, "tool", status, text)

\* INPUT_FILE = join(tmpdir(), ...), set once; this.inputFile never changes
inputFile(v) == IF v = "md" THEN "windsurf_user_input.md" ELSE "windsurf_user_input.txt"

\* the path of the other build returned instead of this.inputFile
GetInputFileOtherPath(request) ==
  ToolResponse(request, "success", <<inputFile(IF variant = "md" THEN "txt" ELSE "md")>>)

\* getInputFilePath
GetInputFileResponse(request) == ToolResponse(request, "success", <<inputFile(variant)>>)

\* an unknown tool answered as a JSON-RPC error object
UnknownToolAsProtocolError(request) == Resp(request.id, -32601, "error", "-", <<>>)

UnknownToolResponse(request) ==
  ToolResponse(request, "error", <<"Unknown tool:", request.tool>>)

WaitResponse(request, userMessage) == ToolResponse(request, "success", userMessage)

\* handleMessage for every request that does not suspend: the lines it
\* makes main write.  request.params.name on a request without params
\* throws a TypeError inside the try block, which the catch reports.
Reply(line) ==
  IF ~ParsesAsJson(line) THEN <<ParseErrorResponse>>
  ELSE LET request == line[1]
       IN CASE request.method = "initialize" -> <<InitializeResponse(request)>>
            [] request.method = "tools/list" -> <<ToolsListResponse(request)>>
            [] request.method = "tools/call" /\ request.tool = "absent" ->
                 <<ParseErrorResponse>>
            [] request.method = "tools/call" /\ request.tool = "get_input_file" ->
                 <<GetInputFileResponse(request)>>
            [] request.method = "tools/call" /\ request.tool = "bogus" ->
                 <<UnknownToolResponse(request)>>
            [] request.method = "notifications/initialized" -> <<>>
            [] OTHER -> <<MethodNotFoundResponse(request)>>

\* the line makes handleToolCall call server.waitForUserInput()
CallsWait(line) ==
  /\ ParsesAsJson(line)
  /\ line[1].method = "tools/call"
  /\ line[1].tool = "wait_for_user_input"

vars ==
  <<variant, initialized, history, file, waits, watchers, handlers,
    unavailable, spawned, stream, buffer, pc, pending, stdout, firstSaved, readFailed, last>>

Did(op, line, content) == last' = [op |-> op, line |-> line, content |-> content]

NoPending == [request |-> NL, w |-> 0]

\* while ((newlineIndex = buffer.indexOf("\n")) !== -1) ... else reader.read()
LoopPc(buf) == IF HasNewline(buf) THEN "lines" ELSE "read"

\* handleMessage called without await: the loop goes straight on
PcAfterCallNoAwait(buf) == LoopPc(buf)

\* const response = await handleMessage(line): main goes no further until
\* the promise of a suspended call settles
PcAfterCall(buf) == "await"

\* const editors = ["windsurf-next", "windsurf", "code"]
editors == <<"windsurf-next", "windsurf", "code">>

NotSpawned == [tried |-> <<>>, launched |-> <<>>]

\* the loop without its return: every candidate is spawned
openInEditorNoReturn(unavail) ==
  [tried |-> editors,
   launched |-> SelectSeq(editors, LAMBDA e : e \notin unavail)]

\* the for loop from candidate i on: Bun.spawn throws for a program that
\* cannot be started, the catch goes on to the next one, a started one
\* returns
RECURSIVE TryFrom(_, _)
TryFrom(i, unavail) ==
  IF i > Len(editors) THEN NotSpawned
  ELSE IF editors[i] \notin unavail
       THEN [tried |-> <<editors[i]>>, launched |-> <<editors[i]>>]
       ELSE [tried |-> <<editors[i]>> \o TryFrom(i + 1, unavail).tried,
             launched |-> TryFrom(i + 1, unavail).launched]

openInEditor(unavail) == TryFrom(1, unavail)

Init ==
  /\ variant \in {"txt", "md"}
  /\ initialized = FALSE
  /\ history = <<>>
  /\ file = <<>>
  /\ waits = <<>>
  /\ watchers = {}
  /\ handlers = EmptyBag
  /\ unavailable = {}
  /\ spawned = NotSpawned
  /\ stream = <<>>
  /\ buffer = <<>>
  /\ pc = "start"
  /\ pending = NoPending
  /\ stdout = <<>>
  /\ firstSaved = <<>>
  /\ readFailed = FALSE
  /\ last = [op |-> "step", line |-> <<>>, content |-> <<>>]

\* ------------------------------------------------------ dispatch loop
\* main: await server.init()
MainInit ==
  /\ UNCHANGED <<firstSaved, readFailed, stream, spawned>>
  /\ Did("step", <<>>, <<>>)
  /\ pc = "start"
  /\ initialized' = TRUE
  /\ pc' = "read"
  /\ stdout' = <<>>
  /\ UNCHANGED <<variant, unavailable, history, file, waits, watchers, handlers, buffer, pending>>

\* buffer = decode(value): the chunk replaces what was buffered
BufferedReplace(buf, chunk) == chunk

\* buffer += decoder.decode(value, { stream: true })
Buffered(buf, chunk) == buf \o chunk

\* main: reader.read() returns a chunk; buffer += decode(value)
Read(chunk) ==
  /\ UNCHANGED <<firstSaved, readFailed, spawned>>
  /\ Did("step", <<>>, <<>>)
  /\ pc = "read"
  /\ Len(buffer) + Len(chunk) <= MaxBuffer
  /\ buffer' = Buffered(buffer, chunk)
  /\ pc' = LoopPc(buffer')
  /\ stdout' = <<>>
  /\ UNCHANGED <<variant, unavailable, initialized, history, file, waits, watchers, handlers, pending>>

\* a chunk arrives from an input that is not fixed in advance
ReadChunk(chunk) == Read(chunk) /\ UNCHANGED stream

\* the next n tokens of the fixed input arrive as one chunk
ReadStream(n) ==
  /\ n \in 1..Len(stream)
  /\ Read(SubSeq(stream, 1, n))
  /\ stream' = SubSeq(stream, n + 1, Len(stream))

\* main: reader.read() returns done; the loop is left once no callback run
\* is still in flight
Eof ==
  /\ UNCHANGED <<firstSaved, readFailed, stream, spawned>>
  /\ Did("step", <<>>, <<>>)
  /\ pc = "read"
  /\ stream = <<>>
  /\ handlers = EmptyBag
  /\ pc' = "done"
  /\ stdout' = <<>>
  /\ UNCHANGED <<variant, unavailable, initialized, history, file, waits, watchers, handlers,
                 buffer, pending>>

\* waitForUserInput up to the point where the promise is returned:
\* render the history, overwrite the file, subscribe with fs.watch
StartWait(request) ==
  LET body == RenderBody(variant, history)
  IN /\ Len(waits) < MaxWaits
     /\ file' = body
     /\ waits' = Append(waits, [state |-> "pending", body |-> body, result |-> <<>>,
                                path |-> inputFile(variant)])
     /\ watchers' = watchers \cup {Len(waits) + 1}
     /\ pending' = [request |-> request, w |-> Len(waits) + 1]
     /\ firstSaved' = <<>>
     /\ readFailed' = FALSE
     /\ spawned' = openInEditor(unavailable)
     /\ UNCHANGED <<history, handlers>>

\* main: one iteration of the inner loop over the complete lines of buffer
DispatchLine ==
  /\ Did("DispatchLine", IF HasNewline(buffer) THEN LineOf(buffer) ELSE <<>>, <<>>)
  /\ pc = "lines"
  /\ HasNewline(buffer)
  /\ LET line == LineOf(buffer)
     IN /\ buffer' = RestOf(buffer)
        /\ IF line # <<>> /\ CallsWait(line)
           THEN /\ StartWait(line[1])
                /\ pc' = PcAfterCall(buffer')
                /\ stdout' = <<>>
           ELSE /\ stdout' = (IF line = <<>> THEN <<>> ELSE Reply(line))
                /\ pc' = LoopPc(buffer')
                /\ UNCHANGED <<history, file, waits, watchers, handlers, pending,
                               firstSaved, readFailed, spawned>>
  /\ UNCHANGED <<variant, unavailable, initialized, stream>>

\* --------------------------------------------------------- wait engine
\* the human saves the file
Save(body) ==
  /\ Did("step", <<>>, <<>>)
  /\ watchers # {} \/ handlers # EmptyBag
  /\ file # body
  /\ file' = body
  /\ UNCHANGED <<readFailed, stream, spawned>>
  /\ firstSaved' =
       (IF /\ firstSaved = <<>>
           /\ waits # <<>> /\ waits[Len(waits)].state = "pending"
           /\ Extract(variant, body).ok
        THEN Extract(variant, body).userMessage ELSE firstSaved)
  /\ stdout' = <<>>
  /\ UNCHANGED <<variant, unavailable, initialized, history, waits, watchers, handlers,
                 buffer, pc, pending>>

\* fs.watch delivers a "change" event to the callback of call w, which
\* runs up to await readFile
ChangeEvent(w) ==
  /\ UNCHANGED <<firstSaved, readFailed, stream, spawned>>
  /\ Did("step", <<>>, <<>>)
  /\ w \in watchers
  /\ BagCardinality(handlers) < MaxInFlight
  /\ handlers' = handlers (+) SetToBag({[w |-> w, read |-> FALSE, content |-> <<>>]})
  /\ stdout' = <<>>
  /\ UNCHANGED <<variant, unavailable, initialized, history, file, waits, watchers,
                 buffer, pc, pending>>

\* the callback runs in flight, one of each kind
InFlight == BagToSet(handlers)

\* readFile of the suspended callback run h completes with the current content
HandlerRead(h) ==
  /\ UNCHANGED <<firstSaved, readFailed, stream, spawned>>
  /\ Did("step", <<>>, <<>>)
  /\ h \in InFlight
  /\ ~h.read
  /\ handlers' = (handlers (-) SetToBag({h}))
                   (+) SetToBag({[w |-> h.w, read |-> TRUE, content |-> file]})
  /\ stdout' = <<>>
  /\ UNCHANGED <<variant, unavailable, initialized, history, file, waits, watchers,
                 buffer, pc, pending>>

\* the catch block closes the watcher as the success path does
ReadFailClosesWatch(h) ==
  /\ UNCHANGED <<firstSaved, stream, spawned>>
  /\ Did("HandlerReadFail", <<>>, <<>>)
  /\ h \in InFlight
  /\ ~h.read
  /\ handlers' = handlers (-) SetToBag({h})
  /\ watchers' = watchers \ {h.w}
  /\ stdout' = <<>>
  /\ UNCHANGED <<variant, unavailable, initialized, history, file, waits,
                 buffer, pc, pending>>

\* readFile rejects: catch (e) logs and the callback run ends
ReadFail(h) ==
  /\ UNCHANGED <<firstSaved, stream, spawned>>
  /\ Did("HandlerReadFail", <<>>, <<>>)
  /\ h \in InFlight
  /\ ~h.read
  /\ handlers' = handlers (-) SetToBag({h})
  /\ stdout' = <<>>
  /\ UNCHANGED <<variant, unavailable, initialized, history, file, waits, watchers,
                 buffer, pc, pending>>

HandlerReadFail(h) == ReadFail(h) /\ UNCHANGED readFailed

\* the same step, remembered in readFailed
HandlerReadFailNoted(h) ==
  /\ ReadFail(h)
  /\ readFailed' = (readFailed \/ (h.w = Len(waits) /\ waits[h.w].state = "pending"))

\* the watch stays subscribed after the message is accepted
CloseWatchLeak(ws, w) == ws

\* watcher.close() of the callback's own watcher
CloseWatch(ws, w) == ws \ {w}

\* the callback run h resumes after readFile with the content it read
HandlerResume(h) ==
  /\ UNCHANGED <<firstSaved, readFailed, stream, spawned>>
  /\ Did("HandlerResume", <<>>, h.content)
  /\ h \in InFlight
  /\ h.read
  /\ LET x == Extract(variant, h.content)
     IN /\ handlers' = handlers (-) SetToBag({h})
        /\ IF x.ok
           THEN /\ watchers' = CloseWatch(watchers, h.w)
                /\ history' = Append(history, HistoryEntry(x.userMessage))
                /\ IF waits[h.w].state = "pending"
                   THEN /\ waits' = [waits EXCEPT ![h.w] =
                                       [@ EXCEPT !.state = "resolved",
                                                 !.result = x.userMessage]]
                        /\ IF pc = "await" /\ pending.w = h.w
                           THEN /\ stdout' = <<WaitResponse(pending.request, x.userMessage)>>
                                /\ pc' = LoopPc(buffer)
                                /\ pending' = NoPending
                           ELSE /\ stdout' = <<>>
                                /\ UNCHANGED <<pc, pending>>
                   ELSE /\ stdout' = <<>>
                        /\ UNCHANGED <<waits, pc, pending>>
           ELSE /\ stdout' = <<>>
                /\ UNCHANGED <<history, waits, watchers, pc, pending>>
  /\ UNCHANGED <<variant, unavailable, initialized, file, buffer>>

\* ------------------------------------------------- what the human saves
\* part_000: the template tail the human types into (fence, blank line,
\* //SEND, fence)
TemplateTail == Fence \o <<"ws", "SEND", "ws">> \o Fence

\* the rendered body with the editable region holding  region  (the typed
\* text and the marker): between the fences in part_000, after the
\* separator in index.ts
FillRegion(v, body, region) ==
  IF v = "md"
  THEN SubSeq(body, 1, Len(body) - Len(TemplateTail))
         \o Fence \o <<"ws">> \o region \o <<"ws">> \o Fence
  ELSE body \o region

\* the body of the newest call with each of the regions typed into it
Edited(regions) ==
  IF waits = <<>> THEN {}
  ELSE {FillRegion(variant, waits[Len(waits)].body, r) : r \in regions}

RegionA == <<"a", "ws", "SEND">>

\* a message that quotes a fenced code block
RegionFence == <<"a", "ws">> \o Fence \o <<"ws", "b", "ws", "SEND">>

RegionDraft == <<"a">>

\* the whole file replaced by a message and the marker
RawSend == <<"a", "ws", "SEND">>

WaitCall(i) == Request("tools/call", i, "wait_for_user_input")

\* ------------------------------------------ specification: wait engine
EngineChunks == {<<WaitCall(1), NL>>, <<WaitCall(1), NL, WaitCall(2), NL>>}

EngineSaves == Edited({RegionA, RegionFence, RegionDraft}) \cup {RawSend}

Next ==
  \/ MainInit
  \/ \E chunk \in EngineChunks : ReadChunk(chunk)
  \/ Eof
  \/ DispatchLine
  \/ \E body \in EngineSaves : Save(body)
  \/ \E w \in 1..MaxWaits : ChangeEvent(w)
  \/ \E h \in InFlight : HandlerRead(h)
  \/ \E h \in InFlight : HandlerReadFail(h)
  \/ \E h \in InFlight : HandlerResume(h)

Spec == Init /\ [][Next]_vars

\* ------------------------------------- specification: protocol dispatcher
\* every request on a line of its own, text that is not JSON, a blank
\* line, and a second line arriving in the same chunk as a wait call
Lines == {<<r>> : r \in Requests} \cup {<<GARBAGE>>, <<SP>>, <<WaitCall(1), GARBAGE>>}

SecondLines ==
  {<<WaitCall(2)>>, <<Request("tools/call", 2, "get_input_file")>>, <<GARBAGE>>}

ProtoChunks ==
  {l \o <<NL>> : l \in Lines}
    \cup {f \o <<NL>> \o l \o <<NL>> :
            f \in {<<WaitCall(1)>>, <<GARBAGE>>}, l \in SecondLines}

ProtoSaves == Edited({RegionA})

NextProto ==
  \/ MainInit
  \/ \E chunk \in ProtoChunks : ReadChunk(chunk)
  \/ Eof
  \/ DispatchLine
  \/ \E body \in ProtoSaves : Save(body)
  \/ \E w \in 1..MaxWaits : ChangeEvent(w)
  \/ \E h \in InFlight : HandlerRead(h)
  \/ \E h \in InFlight : HandlerReadFail(h)
  \/ \E h \in InFlight : HandlerResume(h)

SpecProto == Init /\ [][NextProto]_vars

\* ------------------------------------- specification: line framing
\* Every input of at most MaxStream tokens, cut into chunks in every way.
FramingTokens == {Request("tools/list", 1, "absent"), GARBAGE, SP, NL}

Streams == UNION {[1..n -> FramingTokens] : n \in 0..MaxStream}

InitFraming ==
  /\ variant = "md"
  /\ initialized = FALSE
  /\ history = <<>>
  /\ file = <<>>
  /\ waits = <<>>
  /\ watchers = {}
  /\ handlers = EmptyBag
  /\ unavailable = {}
  /\ spawned = NotSpawned
  /\ stream \in Streams
  /\ buffer = <<>>
  /\ pc = "start"
  /\ pending = NoPending
  /\ stdout = <<>>
  /\ firstSaved = <<>>
  /\ readFailed = FALSE
  /\ last = [op |-> "step", line |-> <<>>, content |-> <<>>]

NextFraming ==
  \/ MainInit
  \/ \E n \in 1..MaxStream : ReadStream(n)
  \/ Eof
  \/ DispatchLine

SpecFraming == InitFraming /\ [][NextFraming]_vars

\* ------------------------------------- specification: editor launch
\* one wait call on a machine where any of the editors may be missing
InitEditor ==
  /\ variant = "md"
  /\ initialized = FALSE
  /\ history = <<>>
  /\ file = <<>>
  /\ waits = <<>>
  /\ watchers = {}
  /\ handlers = EmptyBag
  /\ unavailable \in SUBSET {editors[i] : i \in 1..Len(editors)}
  /\ spawned = NotSpawned
  /\ stream = <<>>
  /\ buffer = <<>>
  /\ pc = "start"
  /\ pending = NoPending
  /\ stdout = <<>>
  /\ firstSaved = <<>>
  /\ readFailed = FALSE
  /\ last = [op |-> "step", line |-> <<>>, content |-> <<>>]

EditorChunks == {<<WaitCall(1), NL>>}

EditorSaves == Edited({RegionA})

NextEditor ==
  \/ MainInit
  \/ \E chunk \in EditorChunks : ReadChunk(chunk)
  \/ DispatchLine
  \/ \E body \in EditorSaves : Save(body)
  \/ \E w \in 1..MaxWaits : ChangeEvent(w)
  \/ \E h \in InFlight : HandlerRead(h)
  \/ \E h \in InFlight : HandlerResume(h)

SpecEditor == InitEditor /\ [][NextEditor]_vars

\* ------------------------------------- specification: failing reads
\* one wait call, a human who saves a draft or a submission, and every
\* read failure remembered
ReadFailChunks == {<<WaitCall(1), NL>>}

ReadFailSaves == Edited({RegionA, RegionDraft})

NextReadFail ==
  \/ MainInit
  \/ \E chunk \in ReadFailChunks : ReadChunk(chunk)
  \/ Eof
  \/ DispatchLine
  \/ \E body \in ReadFailSaves : Save(body)
  \/ \E w \in 1..MaxWaits : ChangeEvent(w)
  \/ \E h \in InFlight : HandlerRead(h)
  \/ \E h \in InFlight : HandlerReadFailNoted(h)
  \/ \E h \in InFlight : HandlerResume(h)

SpecReadFail == Init /\ [][NextReadFail]_vars

\* ------------------------------------- specification: one watch callback
\* Every file content of at most MaxLen pieces is handed to the callback
\* of a pending call.  FENCE stands for three backticks.
Pieces(v) ==
  IF v = "md" THEN {"a", "ws", "SEND", "send", "FENCE"}
  ELSE {"a", "ws", "SEND", "send", "SEP"}

PieceText(x) == IF x = "FENCE" THEN Fence ELSE <<x>>

RECURSIVE TextOf(_)
TextOf(ps) == IF ps = <<>> THEN <<>> ELSE PieceText(Head(ps)) \o TextOf(Tail(ps))

Bodies(v) == UNION {{TextOf(ps) : ps \in [1..n -> Pieces(v)]} : n \in 0..MaxLen}

\* the state after main has dispatched one wait call and the human has
\* saved some content
InitExtract ==
  /\ variant \in {"txt", "md"}
  /\ initialized = TRUE
  /\ history = <<>>
  /\ file \in Bodies(variant)
  /\ waits = <<[state |-> "pending", body |-> RenderBody(variant, <<>>), result |-> <<>>,
                path |-> inputFile(variant)]>>
  /\ watchers = {1}
  /\ handlers = EmptyBag
  /\ unavailable = {}
  /\ spawned = openInEditor(unavailable)
  /\ stream = <<>>
  /\ buffer = <<>>
  /\ pc = "await"
  /\ pending = [request |-> WaitCall(1), w |-> 1]
  /\ stdout = <<>>
  /\ firstSaved = (IF Extract(variant, file).ok
                   THEN Extract(variant, file).userMessage ELSE <<>>)
  /\ readFailed = FALSE
  /\ last = [op |-> "step", line |-> <<>>, content |-> <<>>]

NextExtract ==
  \/ \E w \in 1..MaxWaits : ChangeEvent(w)
  \/ \E h \in InFlight : HandlerRead(h)
  \/ \E h \in InFlight : HandlerReadFail(h)
  \/ \E h \in InFlight : HandlerResume(h)

SpecExtract == InitExtract /\ [][NextExtract]_vars

\* =================================================================
\* Properties
\* =================================================================
Resolved == {w \in 1..Len(waits) : waits[w].state = "resolved"}

Unresolved == {w \in 1..Len(waits) : waits[w].state = "pending"}

\* C1: the history grows by exactly one entry per completed wait, also when
\* several callback runs are in flight at once: every step keeps the
\* existing entries and appends as many entries as it resolves calls.
C1_HistoryOnePerWait ==
  [][/\ Len(history') >= Len(history)
     /\ SubSeq(history', 1, Len(history)) = history
     /\ Len(history') - Len(history) = Cardinality(Resolved') - Cardinality(Resolved)]_vars

\* the text ends with the marker in the sense of the waiting step: the
\* marker in any case, with at most whitespace and backticks behind it
EndsWithMarker(content) ==
  LET body == {i \in 1..Len(content) : ~IsWs(content[i]) /\ ~IsTick(content[i])}
  IN body # {} /\ IsSend(content[CHOOSE i \in body : \A j \in body : i >= j])

NonWs(content) == SelectSeq(content, LAMBDA x : ~IsWs(x))

\* the delimiter of the editable region: the fence in part_000, the
\* separator line in index.ts
Delimiter(v) == IF v = "md" THEN Fence ELSE separator

\* the marker with nothing but whitespace around it, with or without the
\* region delimiters before and after it
BareMarker(v, content) ==
  \E m \in {"SEND", "send"} :
    NonWs(content) \in {<<m>>, Delimiter(v) \o <<m>>, <<m>> \o Delimiter(v),
                        Delimiter(v) \o <<m>> \o Delimiter(v)}

\* C3: a change event whose content is only the marker and whitespace, with
\* or without the region delimiters, does not resolve the wait: history is
\* unchanged, the watch stays open and the call keeps waiting.
C3_BareMarkerRejected ==
  [][(last'.op = "HandlerResume" /\ BareMarker(variant, last'.content))
       => /\ history' = history
          /\ waits' = waits
          /\ watchers' = watchers
          /\ stdout' = <<>>]_vars

C3_Witness ==
  /\ last.op = "HandlerResume"
  /\ BareMarker(variant, last.content)
  /\ Len(NonWs(last.content)) > 1
  /\ Len(last.content) > Len(NonWs(last.content))
  /\ Unresolved = {1}
  /\ watchers = {1}

\* a message of plain words followed by the marker and nothing else
IsMessageThenMarker(content) ==
  LET t == trim(content)
  IN /\ Len(t) >= 2
     /\ IsSend(t[Len(t)])
     /\ \A i \in 1..(Len(t) - 1) : t[i] \in {"a", "b", "ws"}
     /\ trim(SubSeq(t, 1, Len(t) - 1)) # <<>>

MessageBeforeMarker(content) == trim(SubSeq(trim(content), 1, Len(trim(content)) - 1))

\* C4: in part_000 the closing delimiter is optional: a change event whose
\* content is a message followed by the marker, with no closing fence,
\* resolves the pending call with that message.
C4_ClosingFenceOptional ==
  (/\ variant = "md"
   /\ last.op = "HandlerResume"
   /\ IsMessageThenMarker(last.content))
    => /\ waits[1].state = "resolved"
       /\ waits[1].result = MessageBeforeMarker(last.content)

\* the typed text of a region: what stands before its final marker
TypedText(region) == trim(SubSeq(region, 1, Len(region) - 1))

\* C5: when a submission qualifies, the extracted message is exactly the
\* trimmed text between the start of the editable region and the marker,
\* whatever history is rendered above the region: a call resolved from its
\* own body with a region typed into it returns the typed text.
C5_MessageIsRegionText ==
  \A w \in 1..Len(waits) : \A region \in {RegionA, RegionFence} :
    (/\ last.op = "HandlerResume"
     /\ last.content = FillRegion(variant, waits[w].body, region)
     /\ stdout # <<>>)
      => stdout[1].text = TypedText(region)

\* C6: a pending wait resolves with the first valid marker-terminated
\* message the human saved during it, whatever the timing of the saves,
\* the change events and the reads.
C6_FirstSubmissionWins ==
  (/\ waits # <<>>
   /\ waits[Len(waits)].state = "resolved"
   /\ firstSaved # <<>>)
    => waits[Len(waits)].result = firstSaved

\* the entries of the calls completed before call w, in submission order
EntriesBefore(w) == [i \in 1..(w - 1) |-> HistoryEntry(waits[i].result)]

\* C7: the body written at the start of a wait is a function of the history
\* alone: after n successful waits with messages m1..mn it holds exactly
\* those n entries in order, followed by the fresh template, and nothing of
\* the previous file content.
C7_BodyIsHistoryPlusTemplate ==
  \A w \in 1..Len(waits) :
    /\ waits[w].body = RenderBody(variant, EntriesBefore(w))
    /\ (last.op = "DispatchLine" /\ pc = "await" /\ w = Len(waits))
         => file = waits[w].body

\* C8: at most one wait is pending at a time, whatever lines arrive: never
\* two unresolved calls, never two open watches, and the file is rendered
\* only for a call that starts when no other call is pending (the pending
\* call is always the newest one).
C8_AtMostOnePendingWait ==
  /\ Cardinality(Unresolved) <= 1
  /\ Cardinality(watchers) <= 1
  /\ \A w \in Unresolved : w = Len(waits) /\ watchers = {w}

C8_Witness ==
  /\ Unresolved = {1}
  /\ Len(waits) = 1
  /\ buffer = <<WaitCall(2), NL>>
  /\ last.op = "HandlerResume"

\* C9: every request that is not a notification gets exactly one response
\* line with the request's own id; the initialize result has a tools
\* section in its capabilities; notifications/initialized gets no line.
C9_ResponseEchoesId ==
  (/\ last.op = "DispatchLine"
   /\ ParsesAsJson(last.line)
   /\ ~CallsWait(last.line))
    => LET request == last.line[1]
       IN IF request.method = "notifications/initialized"
          THEN stdout = <<>>
          ELSE /\ Len(stdout) = 1
               /\ stdout[1].id = request.id
               /\ request.method = "initialize"
                    => stdout[1].code = 0 /\ "tools" \in {stdout[1].text[i] : i \in 1..Len(stdout[1].text)}

\* C10: a line that is not valid JSON gets a JSON-RPC error with code
\* -32700 and id null, changes no server state, and leaves the loop where
\* it would be without the line: the rest of the buffer is served next.
C10_ParseErrorAndContinue ==
  [][(last'.op = "DispatchLine" /\ last'.line # <<>> /\ ~ParsesAsJson(last'.line))
       => /\ Len(stdout') = 1
          /\ stdout'[1].code = -32700
          /\ stdout'[1].id = NullId
          /\ stdout'[1].kind = "error"
          /\ UNCHANGED <<history, file, waits, watchers, handlers, initialized>>
          /\ buffer' = RestOf(buffer)
          /\ pc' = (IF HasNewline(buffer') THEN "lines" ELSE "read")]_vars

C10_Witness ==
  /\ last.op = "DispatchLine"
  /\ last.line = <<GARBAGE>>
  /\ Len(stdout) = 1 /\ stdout[1].code = -32700
  /\ buffer = <<WaitCall(2), NL>>
  /\ pc = "lines"
  /\ Len(waits) = 1

KnownMethods == {"initialize", "tools/list", "tools/call", "notifications/initialized"}

\* C11: a request with an unrecognized method gets a JSON-RPC error with
\* code exactly -32601 and the request's id, and history, watched file and
\* watch are unchanged.
C11_MethodNotFound ==
  [][(/\ last'.op = "DispatchLine"
      /\ ParsesAsJson(last'.line)
      /\ last'.line[1].method \notin KnownMethods)
       => /\ Len(stdout') = 1
          /\ stdout'[1].kind = "error"
          /\ stdout'[1].code = -32601
          /\ stdout'[1].id = last'.line[1].id
          /\ UNCHANGED <<history, file, waits, watchers>>]_vars

C11_Witness ==
  /\ last.op = "DispatchLine"
  /\ ParsesAsJson(last.line)
  /\ last.line[1].method = "other"
  /\ last.line[1].id = 2
  /\ Len(stdout) = 1 /\ stdout[1].code = -32601
  /\ Len(history) > 0

\* C12: tools/call naming an unknown tool gets a JSON-RPC result, not an
\* error object, with the request's id and the payload status "error",
\* message "Unknown tool: <name>"; no wait starts, no file is written and
\* history is unchanged.
C12_UnknownToolIsResult ==
  [][(/\ last'.op = "DispatchLine"
      /\ ParsesAsJson(last'.line)
      /\ last'.line[1].method = "tools/call"
      /\ last'.line[1].tool \notin {"wait_for_user_input", "get_input_file", "absent"})
       => /\ Len(stdout') = 1
          /\ stdout'[1].kind = "tool"
          /\ stdout'[1].code = 0
          /\ stdout'[1].id = last'.line[1].id
          /\ stdout'[1].status = "error"
          /\ stdout'[1].text = <<"Unknown tool:", last'.line[1].tool>>
          /\ UNCHANGED <<history, file, waits, watchers, pending>>
          /\ pc' # "await"]_vars

C12_Witness ==
  /\ last.op = "DispatchLine"
  /\ ParsesAsJson(last.line)
  /\ last.line[1].method = "tools/call"
  /\ last.line[1].tool = "bogus"
  /\ Len(stdout) = 1 /\ stdout[1].status = "error"
  /\ Len(history) > 0

\* the path of the watched file of the running build
WatchedPath == IF variant = "md" THEN "windsurf_user_input.md" ELSE "windsurf_user_input.txt"

\* C13: get_input_file returns status success and the same path in every
\* state, the path every wait has written and watched, and changes neither
\* history, file content nor any watch.
C13_GetInputFileFixedPath ==
  [][(/\ last'.op = "DispatchLine"
      /\ ParsesAsJson(last'.line)
      /\ last'.line[1].method = "tools/call"
      /\ last'.line[1].tool = "get_input_file")
       => /\ Len(stdout') = 1
          /\ stdout'[1].kind = "tool"
          /\ stdout'[1].status = "success"
          /\ stdout'[1].id = last'.line[1].id
          /\ stdout'[1].text = <<WatchedPath>>
          /\ \A w \in 1..Len(waits) : waits[w].path = WatchedPath
          /\ UNCHANGED <<history, file, waits, watchers, handlers>>]_vars

C13_Witness ==
  /\ last.op = "DispatchLine"
  /\ ParsesAsJson(last.line)
  /\ last.line[1].tool = "get_input_file"
  /\ Len(stdout) = 1 /\ stdout[1].status = "success"
  /\ Len(waits) = 2
  /\ Unresolved = {}

\* C14: the watch is released on the success path: an open watch belongs to
\* a pending wait, so at most one watch is open, and none is open when no
\* wait is pending, after any number of wait cycles.
C14_WatchReleased ==
  /\ watchers \subseteq Unresolved
  /\ Cardinality(watchers) <= 1
  /\ (Unresolved = {} => watchers = {})

C14_Witness ==
  /\ Len(waits) = 2
  /\ Resolved = {1, 2}
  /\ watchers = {}
  /\ last.op = "HandlerResume"

\* C15: a failed read of the watched file resolves nothing and fails
\* nothing: history, waits, watch and the awaiting dispatcher are as before
\* and nothing is written; the watch of a pending call stays subscribed
\* after a failure, and a callback run that afterwards reads qualifying
\* content resolves the pending call with status success.
C15_ReadFailureSwallowed ==
  [][/\ (last'.op = "HandlerReadFail")
          => /\ UNCHANGED <<history, file, waits, watchers, pc, pending, buffer>>
             /\ stdout' = <<>>
     /\ (readFailed' /\ Len(waits') \in Unresolved') => Len(waits') \in watchers'
     /\ \A h \in InFlight :
          (/\ readFailed
           /\ last'.op = "HandlerResume"
           /\ h.read
           /\ handlers' = handlers (-) SetToBag({h})
           /\ h.w \in Unresolved
           /\ Extract(variant, h.content).ok)
            => /\ waits'[h.w].state = "resolved"
               /\ Len(stdout') = 1
               /\ stdout'[1].status = "success"
               /\ stdout'[1].id = pending.request.id
               /\ stdout'[1].text = Extract(variant, h.content).userMessage]_vars

C15_Witness ==
  /\ readFailed
  /\ last.op = "HandlerResume"
  /\ Len(waits) = 1
  /\ waits[1].state = "resolved"
  /\ waits[1].result = <<"a">>
  /\ Len(stdout) = 1
  /\ stdout[1].status = "success"

\* C16: responses pair with input lines by position and never interleave:
\* every step writes at most one line; while a call is pending the
\* dispatcher is suspended, takes no line from the buffer, and the only
\* line written is the pending call's own response; any other line is
\* written by the step that dispatches exactly the first buffered line, and
\* is that line's reply.
C16_PositionalPairing ==
  [][/\ Len(stdout') <= 1
     /\ (Unresolved # {}) => pc = "await"
     /\ (pc = "await")
          => /\ buffer' = buffer
             /\ last'.op # "DispatchLine"
             /\ (stdout' # <<>>)
                  => /\ stdout'[1].id = pending.request.id
                     /\ stdout'[1].kind = "tool"
                     /\ Unresolved' = {}
     /\ (pc # "await" /\ stdout' # <<>>)
          => /\ last'.op = "DispatchLine"
             /\ last'.line = LineOf(buffer)
             /\ buffer' = RestOf(buffer)
             /\ stdout' = Reply(LineOf(buffer))
     /\ (last'.op = "DispatchLine")
          => /\ HasNewline(buffer)
             /\ buffer' = RestOf(buffer)]_vars

C16_Witness ==
  /\ pc = "await"
  /\ Unresolved = {1}
  /\ buffer = <<Request("tools/call", 2, "get_input_file"), NL>>
  /\ last.op = "HandlerReadFail"

\* C17: line framing does not depend on how the input is cut into chunks:
\* a read moves tokens from the input to the buffer and loses or reorders
\* none; every dispatch takes exactly the first newline-terminated line of
\* the input not yet dispatched, trimmed, and leaves the rest; an empty line
\* is skipped without a response; and when the input ends, what is left is
\* the text after the last line terminator, which was never dispatched.
C17_FramingIndependentOfChunks ==
  [][/\ (last'.op = "DispatchLine")
          => /\ HasNewline(buffer)
             /\ last'.line = LineOf(buffer \o stream)
             /\ buffer' \o stream' = RestOf(buffer \o stream)
             /\ (last'.line = <<>>) => stdout' = <<>>
             /\ (last'.line # <<>>) => stdout' = Reply(last'.line)
     /\ (last'.op # "DispatchLine") => buffer' \o stream' = buffer \o stream
     /\ (pc' = "done") => (stream' = <<>> /\ ~HasNewline(buffer'))]_vars

\* a chunk boundary inside the second line: its first token is buffered,
\* the rest and the terminator are still unread, the first (blank) line
\* has been taken
C17_Witness ==
  /\ last.op = "DispatchLine"
  /\ last.line = <<>>
  /\ buffer = <<GARBAGE>>
  /\ stream = <<GARBAGE, NL>>
  /\ pc = "read"

Unavailable(seq) == \A i \in 1..Len(seq) : seq[i] \in unavailable

\* C18: the editor launch is best-effort.  A call tries the candidates in
\* their fixed order up to the first one that starts and starts no other;
\* whichever candidates fail, all of them included, the call renders the
\* same body from the same history, subscribes to the file and suspends,
\* and a callback run that reads qualifying content resolves it with
\* status success.
C18_EditorLaunchBestEffort ==
  [][/\ (last'.op = "DispatchLine" /\ CallsWait(last'.line))
          => /\ \E n \in 0..Len(editors) :
                  /\ spawned'.tried = SubSeq(editors, 1, n)
                  /\ Unavailable(SubSeq(editors, 1, n - 1))
                  /\ IF n > 0 /\ editors[n] \notin unavailable
                     THEN spawned'.launched = <<editors[n]>>
                     ELSE n = Len(editors) /\ spawned'.launched = <<>>
             /\ history' = history
             /\ file' = RenderBody(variant, history)
             /\ Len(waits') = Len(waits) + 1
             /\ waits'[Len(waits')].state = "pending"
             /\ waits'[Len(waits')].body = RenderBody(variant, history)
             /\ Len(waits') \in watchers'
             /\ pc' = "await"
             /\ stdout' = <<>>
     /\ \A h \in InFlight :
          (/\ last'.op = "HandlerResume"
           /\ h.read
           /\ handlers' = handlers (-) SetToBag({h})
           /\ h.w \in Unresolved
           /\ Extract(variant, h.content).ok)
            => /\ waits'[h.w].state = "resolved"
               /\ waits'[h.w].result = Extract(variant, h.content).userMessage
               /\ stdout' = <<WaitResponse(pending.request,
                                           Extract(variant, h.content).userMessage)>>]_vars

\* no candidate starts, and the call has resolved with the human's message
C18_Witness ==
  /\ Unavailable(editors)
  /\ spawned = [tried |-> editors, launched |-> <<>>]
  /\ last.op = "HandlerResume"
  /\ Len(waits) = 1
  /\ waits[1].state = "resolved"
  /\ waits[1].result = <<"a">>
  /\ Len(stdout) = 1 /\ stdout[1].status = "success"

\* C19: a callback run that read exactly the body rendered at the start of
\* its call (nothing typed by the human) resolves nothing and appends
\* nothing to history, whatever the history holds.
C19_UneditedBodyNeverResolves ==
  [][\A h \in InFlight :
       (/\ last'.op = "HandlerResume"
        /\ h.read
        /\ handlers' = handlers (-) SetToBag({h})
        /\ h.content = waits[h.w].body)
         => /\ history' = history
            /\ waits' = waits
            /\ watchers' = watchers
            /\ stdout' = <<>>]_vars

====
